---- MODULE Spec2Model ----
(***************************************************************************)
(* VISP (VI-style SPreadsheet), src/src/main.rs.                           *)
(*                                                                         *)
(* The host loop of main() draws the table, waits for an event and applies *)
(* it to the selection and the mode.  All selection fields are u16.        *)
(***************************************************************************)
EXTENDS Integers, Naturals, Sequences, FiniteSets, TLC

VARIABLES
    selection,        \* state.table_content.selection: [row, col, rows, cols]
    mode,             \* state.mode: "Normal" | "Visual"
    pc,               \* position of main(): "draw" | "poll" | "done" | "failed" | "panicked"
    event,            \* the event read by the loop iteration that just ended ("none": no event)
    before,           \* [mode, selection] as the last draw left them (history)
    label_col,        \* argument handed to col_nr_to_label
    label,            \* its result, a sequence of letters (<<>>: not yet computed)
    content,          \* state.table_content: [cells, col_widths, row_heights]
    hist,             \* [commanded, renders]: whether a command has been applied, and
                      \* the draws completed since the last one was (history)
    viewport,         \* the area handed to Table::render on its own
    out               \* what that render did: [status, draws] (NoOutput: not yet called)

vars == <<selection, mode, pc, event, before, label_col, label, content, hist, viewport, out>>

(***************************************************************************)
(* Program constants.                                                      *)
(***************************************************************************)
U16Max == 65535

DefaultRowHeight == 1

DefaultColWidth == 4

\* TableContent literal of main(): explicit sizes.
col_widths == <<10, 5>>

row_heights == <<1, 2>>

\* TableCell values; a String is the sequence of its characters.
EmptyCell == [tag |-> "Empty"]

StringCell(s) == [tag |-> "String", s |-> s]

ValueCell(v) == [tag |-> "Value", v |-> v]

\* TableContent literal of main(): the cells, row major.
MainCells ==
    LET value == StringCell(<<"V", "a", "l", "u", "e">>)
    IN  << <<value, ValueCell(10), ValueCell(10)>>,
           <<value, ValueCell(20), ValueCell(10)>>,
           <<value, EmptyCell, ValueCell(10)>>,
           <<value, ValueCell(20), ValueCell(10)>> >>

MainContent ==
    [cells |-> MainCells, col_widths |-> col_widths, row_heights |-> row_heights]

\* No render on its own has been asked for / has answered.
NoArea == [x |-> 0, y |-> 0, width |-> 0, height |-> 0]

NoOutput == [status |-> "none", checks |-> FALSE, draws |-> <<>>]

(***************************************************************************)
(* Bounds of the exploration.                                              *)
(***************************************************************************)
\* A selection field is "near" its minimum when it is at most MaxNear above
\* it, and near the top of u16 when it is at most MaxNear below U16Max.
MaxNear == 2

\* While a field travels u16 the other field of its axis is at most this above
\* its minimum.
MaxRest == 1

\* Largest viewport handed to the table widget.
MaxWidth == 24

MaxHeight == 6

\* Draws without a command in between that are followed (poll timeouts and
\* events that are no command each lead to one more draw).
MaxRenders == 3

(***************************************************************************)
(* Keys.  Event::Key(KeyCode::Char(c)) is written c, KeyCode::Esc "Esc";   *)
(* "other" is any event no branch of the loop compares against.            *)
(***************************************************************************)
Events == {"j", "k", "l", "h", "Esc", "v", "q", "other"}

\* The events the loop acts on.
Commands == Events \ {"other"}

Modes == {"Normal", "Visual"}

(***************************************************************************)
(* fn col_nr_to_label(col: u16) -> String.  A String is modelled as the    *)
(* sequence of its characters; char::from_u32('A' + col) is Letters[col+1].*)
(***************************************************************************)
Letters ==
    << "A", "B", "C", "D", "E", "F", "G", "H", "I", "J", "K", "L", "M",
       "N", "O", "P", "Q", "R", "S", "T", "U", "V", "W", "X", "Y", "Z" >>

\* Variant of col_nr_to_label with plain base 26 (the front digit not
\* shifted down by one).
RECURSIVE col_nr_to_label_base26(_)
col_nr_to_label_base26(col) ==
    IF col < 26
    THEN <<Letters[col + 1]>>
    ELSE LET front == col \div 26
         IN  col_nr_to_label_base26(front) \o col_nr_to_label_base26(col - (26 * front))

RECURSIVE col_nr_to_label(_)
col_nr_to_label(col) ==
    IF col < 26
    THEN <<Letters[col + 1]>>
    ELSE LET front == col \div 26
         IN  col_nr_to_label(front - 1) \o col_nr_to_label(col - (26 * front))

\* Variants of add_clamp: the increment without the test against u16::MAX
\* (it wraps), and with the test off by one.
add_wrap(val) == (val + 1) % (U16Max + 1)

add_clamp_early(val) == IF val < U16Max - 1 THEN val + 1 ELSE val

(***************************************************************************)
(* fn add_clamp(val: &mut u16)                                             *)
(***************************************************************************)
add_clamp(val) == IF val < U16Max THEN val + 1 ELSE val

\* Variants of sub_clamp: the decrement without the test against min, and with
\* the test taken against 0 whatever min is.
sub_no_floor(val, min) == val - 1

sub_floor_zero(val, min) == IF val > 0 THEN val - 1 ELSE val

(***************************************************************************)
(* fn sub_clamp(val: &mut u16, min: u16)                                   *)
(***************************************************************************)
sub_clamp(val, min) == IF val > min THEN val - 1 ELSE val

\* Variant of set_single that resets the rows only.
set_single_rows_only(sel) == [sel EXCEPT !.rows = 1]

(***************************************************************************)
(* Selection::set_single                                                   *)
(***************************************************************************)
set_single(sel) == [sel EXCEPT !.rows = 1, !.cols = 1]

(***************************************************************************)
(* u16 addition: the sum as a release build computes it (wrapping) and the *)
(* condition under which a build with overflow checks panics instead.      *)
(***************************************************************************)
WrapAdd(a, b) == (a + b) % (U16Max + 1)

Overflows(a, b) == a + b > U16Max

(***************************************************************************)
(* Selection::row_selected, col_selected, selected.  `&&` short-circuits,  *)
(* so the sum is evaluated only when the first comparison holds.           *)
(***************************************************************************)
row_selected(sel, row) == row >= sel.row /\ row < WrapAdd(sel.row, sel.rows)

row_selected_panics(sel, row) == row >= sel.row /\ Overflows(sel.row, sel.rows)

col_selected(sel, col) == col >= sel.col /\ col < WrapAdd(sel.col, sel.cols)

col_selected_panics(sel, col) == col >= sel.col /\ Overflows(sel.col, sel.cols)

selected(sel, row, col) == row_selected(sel, row) /\ col_selected(sel, col)

selected_panics(sel, row, col) ==
    \/ row_selected_panics(sel, row)
    \/ row_selected(sel, row) /\ col_selected_panics(sel, col)

(***************************************************************************)
(* The event handling of one loop iteration (main.rs 79-113): the branch   *)
(* on the mode taken before Esc and v are looked at.                       *)
(***************************************************************************)
NormalKeys(sel, e) ==
    LET s1 == IF e = "j" THEN [sel EXCEPT !.row = add_clamp(@)] ELSE sel
        s2 == IF e = "k" THEN [s1 EXCEPT !.row = sub_clamp(@, 0)] ELSE s1
        s3 == IF e = "l" THEN [s2 EXCEPT !.col = add_clamp(@)] ELSE s2
        s4 == IF e = "h" THEN [s3 EXCEPT !.col = sub_clamp(@, 0)] ELSE s3
    IN  s4

VisualKeys(sel, e) ==
    LET s1 == IF e = "j" THEN [sel EXCEPT !.rows = add_clamp(@)] ELSE sel
        s2 == IF e = "k" THEN [s1 EXCEPT !.rows = sub_clamp(@, 1)] ELSE s1
        s3 == IF e = "l" THEN [s2 EXCEPT !.cols = add_clamp(@)] ELSE s2
        s4 == IF e = "h" THEN [s3 EXCEPT !.cols = sub_clamp(@, 1)] ELSE s3
    IN  s4

\* Variant of MoveKeys without the branch on the mode.
MoveKeysAnchorOnly(sel, m, e) == NormalKeys(sel, e)

MoveKeys(sel, m, e) ==
    IF m = "Normal" THEN NormalKeys(sel, e)
    ELSE IF m = "Visual" THEN VisualKeys(sel, e)
    ELSE sel

\* Variant of the Esc branch that leaves the extent alone.
EscKeyKeepsExtent(st, e) ==
    IF e = "Esc" THEN [st EXCEPT !.mode = "Normal"] ELSE st

EscKey(st, e) ==
    IF e = "Esc" THEN [mode |-> "Normal", selection |-> set_single(st.selection)]
    ELSE st

\* Variant of the v branch that also collapses the extent.
VKeyCollapses(st, e) ==
    IF e = "v" THEN [mode |-> "Visual", selection |-> set_single(st.selection)]
    ELSE st

VKey(st, e) ==
    IF e = "v" THEN [st EXCEPT !.mode = "Visual"] ELSE st

\* Mode and selection after event e has been handled in mode m, selection sel.
Apply(sel, m, e) ==
    VKey(EscKey([mode |-> m, selection |-> MoveKeys(sel, m, e)], e), e)

(***************************************************************************)
(* Table::render: the walk over screen rows and columns.  Walk row 0 is    *)
(* the header row, walk column 0 the header column.                        *)
(***************************************************************************)
row_height(heights, row) ==
    IF row = 0 THEN DefaultRowHeight
    ELSE IF row <= Len(heights) THEN heights[row]
    ELSE DefaultRowHeight

col_width(widths, col) ==
    IF col = 0 THEN DefaultColWidth
    ELSE IF col <= Len(widths) THEN widths[col]
    ELSE DefaultColWidth

RECURSIVE RowWalk(_, _, _, _)
\* The walk rows visited from (row, y) on: <<row, y, row_height>>.
RowWalk(heights, area, row, y) ==
    IF y < area.y + area.height
    THEN <<[row |-> row, y |-> y, height |-> row_height(heights, row)]>>
         \o RowWalk(heights, area, row + 1, y + row_height(heights, row))
    ELSE <<>>

RECURSIVE ColWalk(_, _, _, _)
ColWalk(widths, area, col, x) ==
    IF x < area.x + area.width
    THEN <<[col |-> col, x |-> x, width |-> col_width(widths, col)]>>
         \o ColWalk(widths, area, col + 1, x + col_width(widths, col))
    ELSE <<>>

\* TRUE iff some selection test made by render overflows (main.rs 239, 243, 254).
RenderPanics(sel, area) ==
    /\ Overflows(sel.row, sel.rows) \/ Overflows(sel.col, sel.cols)
    /\ LET rws == RowWalk(row_heights, area, 0, area.y)
           cls == ColWalk(col_widths, area, 0, area.x)
       IN  \E i \in 1..Len(rws), j \in 1..Len(cls) :
              LET r == rws[i].row
                  c == cls[j].col
              IN  \/ r > 0 /\ c > 0 /\ selected_panics(sel, r - 1, c - 1)
                  \/ r > 0 /\ c = 0 /\ row_selected_panics(sel, r - 1)
                  \/ r = 0 /\ c > 0 /\ col_selected_panics(sel, c - 1)

\* The table's viewport: chunks[0] of ui(), as large as the terminal allows.
Viewports ==
    {[x |-> 0, y |-> 0, width |-> w, height |-> h] :
        w \in 0..MaxWidth, h \in 0..MaxHeight}

(***************************************************************************)
(* Table::render, cell by cell.  u16 sums are taken as the build takes     *)
(* them: with overflow checks (checks = TRUE) the first overflowing sum    *)
(* panics and what was written so far stays in the buffer; without, the    *)
(* sum wraps.  The terminal library is built with the same profile.        *)
(***************************************************************************)
Min(a, b) == IF a < b THEN a ELSE b

Max(a, b) == IF a > b THEN a ELSE b

\* `n as u16` of a usize.
AsU16(n) == n % (U16Max + 1)

\* u16 difference as a build without overflow checks computes it.
WrapSub(a, b) == (a - b + U16Max + 1) % (U16Max + 1)

Rect(x, y, w, h) == [x |-> x, y |-> y, width |-> w, height |-> h]

\* floor(a * b / c) for a, b <= U16Max and c >= 2, in 32 bit steps.
MulDiv(a, b, c) ==
    LET hi == a * (b \div 256)
        lo == a * (b % 256)
    IN  ((hi \div c) * 256) + ((((hi % c) * 256) + lo) \div c)

RECURSIVE FloorRoot(_, _, _, _)
\* The largest n in lo..hi with n * n * den <= U16Max * num, that is
\* floor(sqrt(U16Max * num / den)); lo >= 1 has the property.
FloorRoot(num, den, lo, hi) ==
    IF lo = hi THEN lo
    ELSE LET mid == (lo + hi + 1) \div 2
         IN  IF den <= MulDiv(U16Max, num, mid) \div mid
             THEN FloorRoot(num, den, mid, hi)
             ELSE FloorRoot(num, den, lo, mid - 1)

\* tui's Rect::new: a rectangle of more than u16::MAX cells is shrunk to that
\* area, keeping its aspect ratio (computed in f64 and truncated; the exact
\* root is the same number wherever the root is no integer).
RectNew(x, y, w, h) ==
    IF h > 0 /\ w > U16Max \div h
    THEN Rect(x, y, FloorRoot(w, h, 1, U16Max), FloorRoot(h, w, 1, U16Max))
    ELSE Rect(x, y, w, h)

\* Variant of Intersection that hands the rectangle back unclipped.
IntersectionUnclipped(r, other, checks) == [panic |-> FALSE, rect |-> r]

\* tui's Rect::intersection: x2 = min(self.x + self.width, other.x +
\* other.width), width = x2 - x1, in plain u16 arithmetic.
Intersection(r, other, checks) ==
    LET x1 == Max(r.x, other.x)
        y1 == Max(r.y, other.y)
        x2 == Min(WrapAdd(r.x, r.width), other.x + other.width)
        y2 == Min(WrapAdd(r.y, r.height), other.y + other.height)
    IN  [panic |-> /\ checks
                   /\ \/ Overflows(r.x, r.width)
                      \/ Overflows(r.y, r.height)
                      \/ x2 < x1
                      \/ y2 < y1,
         rect  |-> Rect(x1, y1, WrapSub(x2, x1), WrapSub(y2, y1))]

\* The right edge of the buffer render writes into: ui() hands the table
\* chunks[0] of a vertical split of the whole terminal, as wide as the buffer.
BufferRight(area) == area.x + area.width

Digits == <<"0", "1", "2", "3", "4", "5", "6", "7", "8", "9">>

RECURSIVE Decimal(_)
\* format!("{}", n) of a non-negative integer.
Decimal(n) ==
    IF n < 10 THEN <<Digits[n + 1]>>
    ELSE Decimal(n \div 10) \o <<Digits[(n % 10) + 1]>>

\* cells.get(table_row).and_then(|r| r.get(table_col))
NoCell == [tag |-> "None"]

CellAt(cells, table_row, table_col) ==
    IF table_row < Len(cells) /\ table_col < Len(cells[table_row + 1])
    THEN cells[table_row + 1][table_col + 1]
    ELSE NoCell

\* TableCell::format_string
format_string(cell) ==
    IF cell.tag = "String" THEN cell.s
    ELSE IF cell.tag = "Value"
         THEN IF cell.v < 0 THEN <<"-">> \o Decimal(0 - cell.v) ELSE Decimal(cell.v)
    ELSE <<>>

\* Variant of Written: the text is not cut at the width it is given.
WrittenUncut(text, x, width, area) ==
    SubSeq(text, 1, Min(Len(text), BufferRight(area) - x))

\* Buffer::set_stringn: the characters of text that land in the buffer when
\* it is written at column x with at most `width` columns to use.
Written(text, x, width, area) ==
    SubSeq(text, 1, Min(Len(text), Min(width, BufferRight(area) - x)))

\* Buffer::set_string: set_stringn with usize::MAX columns to use.
WrittenLine(text, x, area) ==
    SubSeq(text, 1, Min(Len(text), BufferRight(area) - x))

\* The positions a write covers.  A cleared block is [x0, x1) x [y0, y1); a
\* text of n characters written at (x, y) is [x, x + n) x [y, y + 1).
Block(x0, x1, y0, y1) == {<<px, py>> : px \in x0..(x1 - 1), py \in y0..(y1 - 1)}

NoBlock == [x0 |-> 0, x1 |-> 0, y0 |-> 0, y1 |-> 0]

Cleared(d) == Block(d.clear.x0, d.clear.x1, d.clear.y0, d.clear.y1)

Glyphs(d) == Block(d.x, d.x + Len(d.text), d.y, d.y + 1)

\* Position p lies in rectangle r.
Inside(p, r) ==
    /\ r.x <= p[1] /\ p[1] < r.x + r.width
    /\ r.y <= p[2] /\ p[2] < r.y + r.height

\* The draw_cell closure: the block it clears and the text it writes.  The
\* end of the x range is computed before the loop, the end of the y range
\* once the x range has a first element.
draw_cell(cell, rect, is_selected, checks, area) ==
    LET ex == WrapAdd(rect.x, rect.width)
        ey == WrapAdd(rect.y, rect.height)
    IN  [panic |-> /\ checks
                   /\ \/ Overflows(rect.x, rect.width)
                      \/ rect.x < ex /\ Overflows(rect.y, rect.height),
         style |-> IF is_selected THEN "selected" ELSE "plain",
         clear |-> IF rect.x < ex /\ rect.y < ey
                   THEN [x0 |-> rect.x, x1 |-> ex, y0 |-> rect.y, y1 |-> ey]
                   ELSE NoBlock,
         text  |-> IF cell = NoCell THEN <<>>
                   ELSE Written(format_string(cell), rect.x, rect.width, area)]

\* One write of the pass: what was drawn for walk cell (row, col), whose
\* grid cell is (row - 1, col - 1); -1 stands for the header.
\* `walk` is the walk cell's rectangle as resolved, `rect` the one the write
\* was given: the clipped one of a content cell, else the walk cell's.
DrawRecord(kind, row, col, style, clear, walk, rect, text) ==
    [kind |-> kind, row |-> row - 1, col |-> col - 1, style |-> style,
     clear |-> clear, walk |-> walk, rect |-> rect, x |-> rect.x, y |-> rect.y,
     text |-> text]

\* The body of the inner loop up to the draw (main.rs 235-263) for walk cell
\* (row, col) at screen position (x, y) with resolved size w x h.
DrawAt(ctx, row, col, x, y, w, h) ==
    LET sel == ctx.selection
        table_row == AsU16(row - 1)
        table_col == AsU16(col - 1)
    IN  IF row > 0 /\ col > 0
        THEN LET inter == Intersection(RectNew(x, y, w, h), ctx.area, ctx.checks)
                 dc == draw_cell(CellAt(ctx.content.cells, row - 1, col - 1),
                                 inter.rect, selected(sel, table_row, table_col),
                                 ctx.checks, ctx.area)
                 panic == \/ ctx.checks /\ selected_panics(sel, table_row, table_col)
                          \/ inter.panic
                          \/ dc.panic
             IN  [panic |-> panic,
                  draws |-> IF panic THEN <<>>
                            ELSE <<DrawRecord("content", row, col, dc.style, dc.clear,
                                              Rect(x, y, w, h), inter.rect, dc.text)>>]
        ELSE IF row > 0
        THEN LET panic == ctx.checks /\ row_selected_panics(sel, table_row)
                 style == IF row_selected(sel, table_row)
                          THEN "selected_header" ELSE "header"
             IN  [panic |-> panic,
                  draws |-> IF panic THEN <<>>
                            ELSE <<DrawRecord("header_col", row, col, style, NoBlock,
                                              Rect(x, y, w, h), Rect(x, y, w, h),
                                              WrittenLine(Decimal(row), x, ctx.area))>>]
        ELSE IF col > 0
        THEN LET panic == ctx.checks /\ col_selected_panics(sel, table_col)
                 style == IF col_selected(sel, table_col)
                          THEN "selected_header" ELSE "header"
             IN  [panic |-> panic,
                  draws |-> IF panic THEN <<>>
                            ELSE <<DrawRecord("header_row", row, col, style, NoBlock,
                                              Rect(x, y, w, h), Rect(x, y, w, h),
                                              WrittenLine(col_nr_to_label(table_col),
                                                          x, ctx.area))>>]
        ELSE [panic |-> FALSE,
              draws |-> <<DrawRecord("corner", row, col, "header", NoBlock,
                                     Rect(x, y, w, h), Rect(x, y, w, h),
                                     WrittenLine(<<"*", "*">>, x, ctx.area))>>]

RECURSIVE RenderCols(_, _, _, _, _, _)
\* The inner loop from walk column col at x on, in walk row `row` at y.
RenderCols(ctx, row, y, h, col, x) ==
    IF x < ctx.area.x + ctx.area.width
    THEN LET w == col_width(ctx.content.col_widths, col)
             d == DrawAt(ctx, row, col, x, y, w, h)
         IN  IF d.panic \/ (ctx.checks /\ Overflows(x, w))
             THEN [status |-> "panic", draws |-> d.draws]
             ELSE LET rest == RenderCols(ctx, row, y, h, col + 1, WrapAdd(x, w))
                  IN  [status |-> rest.status, draws |-> d.draws \o rest.draws]
    ELSE [status |-> "ok", draws |-> <<>>]

RECURSIVE RenderRows(_, _, _)
\* The outer loop from walk row `row` at y on.
RenderRows(ctx, row, y) ==
    IF y < ctx.area.y + ctx.area.height
    THEN LET h == row_height(ctx.content.row_heights, row)
             cols == RenderCols(ctx, row, y, h, 0, ctx.area.x)
         IN  IF cols.status = "panic" \/ (ctx.checks /\ Overflows(y, h))
             THEN [status |-> "panic", draws |-> cols.draws]
             ELSE LET rest == RenderRows(ctx, row + 1, WrapAdd(y, h))
                  IN  [status |-> rest.status, draws |-> cols.draws \o rest.draws]
    ELSE [status |-> "ok", draws |-> <<>>]

\* Table::render(area, buf) of `content` with `sel` as its selection: how it
\* ended ("ok" or "panic") and its writes in the order they were made.
Render(cont, sel, area, checks) ==
    LET pass == RenderRows([content |-> cont, selection |-> sel, area |-> area,
                            checks |-> checks], 0, area.y)
    IN  [status |-> pass.status, checks |-> checks, draws |-> pass.draws]

(***************************************************************************)
(* Exploration caps.  Near: every field is within MaxNear of its minimum.  *)
(* Wide: one field may travel the whole of u16.  While it is between the   *)
(* two ends only the key that advances it is followed and the other fields *)
(* rest at their minimum (the other field of the same axis at most MaxRest *)
(* above it); once it is within MaxNear of U16Max every key is followed    *)
(* again.                                                                  *)
(***************************************************************************)
IsFar(v, min) == v - min > MaxNear

IsMid(v, min) == IsFar(v, min) /\ v - min < U16Max - MaxNear

NoneFar(sel) ==
    /\ ~IsFar(sel.row, 0)
    /\ ~IsFar(sel.col, 0)
    /\ ~IsFar(sel.rows, 1)
    /\ ~IsFar(sel.cols, 1)

AnyMid(sel) ==
    \/ IsMid(sel.row, 0)
    \/ IsMid(sel.col, 0)
    \/ IsMid(sel.rows, 1)
    \/ IsMid(sel.cols, 1)

\* Field `far` is the only one away from its minimum; `same` is how far the
\* other field of its axis is above its minimum, a and b are the other axis.
OnlyFar(far, minFar, same, a, minA, b, minB) ==
    /\ IsFar(far, minFar)
    /\ ~IsFar(same, 0) /\ ~IsFar(a, minA) /\ ~IsFar(b, minB)
    /\ IsMid(far, minFar) => same <= MaxRest /\ a = minA /\ b = minB

Resting(sel) ==
    \/ NoneFar(sel)
    \/ OnlyFar(sel.row, 0, sel.rows - 1, sel.col, 0, sel.cols, 1)
    \/ OnlyFar(sel.col, 0, sel.cols - 1, sel.row, 0, sel.rows, 1)
    \/ OnlyFar(sel.rows, 1, sel.row, sel.col, 0, sel.cols, 1)
    \/ OnlyFar(sel.cols, 1, sel.col, sel.row, 0, sel.rows, 1)

Advances(sel, new) ==
    \/ new.row > sel.row
    \/ new.col > sel.col
    \/ new.rows > sel.rows
    \/ new.cols > sel.cols

Explored(wide, sel, new) ==
    IF wide
    THEN /\ Resting(new)
         /\ AnyMid(sel) \/ AnyMid(new) => Advances(sel, new)
    ELSE NoneFar(new)

(***************************************************************************)
(* The state machine.                                                      *)
(***************************************************************************)
Init ==
    /\ selection = [row |-> 0, col |-> 0, rows |-> 1, cols |-> 1]
    /\ mode = "Normal"
    /\ pc = "draw"
    /\ event = "none"
    /\ before = [mode |-> "Normal",
                 selection |-> [row |-> 0, col |-> 0, rows |-> 1, cols |-> 1]]
    /\ label_col = 0
    /\ label = <<>>
    /\ content = MainContent
    /\ hist = [commanded |-> FALSE, renders |-> 0]
    /\ viewport = NoArea
    /\ out = NoOutput

\* Some viewport makes a selection test of render overflow.
RenderCanPanic(sel) ==
    /\ Overflows(sel.row, sel.rows) \/ Overflows(sel.col, sel.cols)
    /\ \E area \in Viewports : RenderPanics(sel, area)

\* Variant of Draw: the render collapses the extent it was shown.
DrawCollapses ==
    /\ pc = "draw"
    /\ pc' \in {"poll"} \cup (IF RenderCanPanic(selection) THEN {"panicked"} ELSE {})
    /\ event' = "none"
    /\ before' = [mode |-> mode, selection |-> selection]
    /\ hist' = IF pc' = "poll" THEN [hist EXCEPT !.renders = @ + 1] ELSE hist
    /\ selection' = set_single(selection)
    /\ UNCHANGED <<mode, label_col, label, content, viewport, out>>

\* terminal.draw(|f| ui(f, &state)).  An overflowing selection test panics
\* in a build with overflow checks and wraps in one without.
Draw ==
    /\ pc = "draw"
    /\ pc' \in {"poll"} \cup (IF RenderCanPanic(selection) THEN {"panicked"} ELSE {})
    /\ event' = "none"
    /\ before' = [mode |-> mode, selection |-> selection]
    /\ hist' = IF pc' = "poll" THEN [hist EXCEPT !.renders = @ + 1] ELSE hist
    /\ UNCHANGED <<selection, mode, label_col, label, content, viewport, out>>

\* poll() returned Ok(false): no event within the second.  (Not followed
\* while a field travels between the two ends of u16.)
Timeout ==
    /\ pc = "poll"
    /\ ~AnyMid(selection)
    /\ hist.renders < MaxRenders
    /\ pc' = "draw"
    /\ event' = "none"
    /\ UNCHANGED <<selection, mode, before, label_col, label, content, hist, viewport, out>>

\* Variants of AfterEvent: q does not leave the loop; the loop waits for the
\* next event without drawing first.
AfterEventNoBreak(e) == "draw"

AfterEventSkipsDraw(e) == IF e = "q" THEN "done" ELSE "poll"

\* Where the loop goes once e has been handled: `break` on q, else the top.
AfterEvent(e) == IF e = "q" THEN "done" ELSE "draw"

\* poll() returned Ok(true) and read() returned e: one whole loop iteration.
ReadEvent(wide, e) ==
    /\ pc = "poll"
    /\ LET st == Apply(selection, mode, e)
       IN  /\ Explored(wide, selection, st.selection)
           /\ selection' = st.selection
           /\ mode' = st.mode
    /\ e \notin Commands => hist.renders < MaxRenders
    /\ event' = e
    /\ pc' = AfterEvent(e)
    /\ hist' = IF e \in Commands THEN [commanded |-> TRUE, renders |-> 0] ELSE hist
    /\ UNCHANGED <<before, label_col, label, content, viewport, out>>

\* terminal.draw, poll or read returned Err: `?` leaves main().  (Not followed
\* while a field travels between the two ends of u16.)
IoError ==
    /\ pc \in {"draw", "poll"}
    /\ ~AnyMid(selection)
    /\ pc' = "failed"
    /\ UNCHANGED <<selection, mode, event, before, label_col, label, content, hist, viewport, out>>

MoveDown == ReadEvent(FALSE, "j")

MoveUp == ReadEvent(FALSE, "k")

MoveRight == ReadEvent(FALSE, "l")

MoveLeft == ReadEvent(FALSE, "h")

Cancel == ReadEvent(FALSE, "Esc")

EnterVisual == ReadEvent(FALSE, "v")

Quit == ReadEvent(FALSE, "q")

OtherEvent == ReadEvent(FALSE, "other")

Next ==
    \/ Draw
    \/ Timeout
    \/ MoveDown
    \/ MoveUp
    \/ MoveRight
    \/ MoveLeft
    \/ Cancel
    \/ EnterVisual
    \/ Quit
    \/ OtherEvent
    \/ IoError

Spec == Init /\ [][Next]_vars

(***************************************************************************)
(* The same loop explored up to the top of u16.                            *)
(***************************************************************************)
WideMoveDown == ReadEvent(TRUE, "j")

WideMoveUp == ReadEvent(TRUE, "k")

WideMoveRight == ReadEvent(TRUE, "l")

WideMoveLeft == ReadEvent(TRUE, "h")

WideCancel == ReadEvent(TRUE, "Esc")

WideEnterVisual == ReadEvent(TRUE, "v")

WideQuit == ReadEvent(TRUE, "q")

WideOtherEvent == ReadEvent(TRUE, "other")

NextWide ==
    \/ Draw
    \/ Timeout
    \/ WideMoveDown
    \/ WideMoveUp
    \/ WideMoveRight
    \/ WideMoveLeft
    \/ WideCancel
    \/ WideEnterVisual
    \/ WideQuit
    \/ WideOtherEvent
    \/ IoError

SpecWide == Init /\ [][NextWide]_vars

(***************************************************************************)
(* col_nr_to_label on its own: applied once to any u16 argument.           *)
(***************************************************************************)
InitLabel ==
    /\ selection = [row |-> 0, col |-> 0, rows |-> 1, cols |-> 1]
    /\ mode = "Normal"
    /\ pc = "draw"
    /\ event = "none"
    /\ before = [mode |-> "Normal",
                 selection |-> [row |-> 0, col |-> 0, rows |-> 1, cols |-> 1]]
    /\ label_col \in 0..U16Max
    /\ label = <<>>
    /\ content = MainContent
    /\ hist = [commanded |-> FALSE, renders |-> 0]
    /\ viewport = NoArea
    /\ out = NoOutput

CallLabel ==
    /\ label = <<>>
    /\ label' = col_nr_to_label(label_col)
    /\ UNCHANGED <<selection, mode, pc, event, before, label_col, content, hist, viewport, out>>

NextLabel == CallLabel

SpecLabel == InitLabel /\ [][NextLabel]_vars

(***************************************************************************)
(* Table::render on its own: one call on some grid, selection and          *)
(* viewport, in a build with or without overflow checks.                   *)
(***************************************************************************)
\* Longest list of explicit sizes tried per axis.
MaxOverrides == 1

\* Largest viewport a single render is given.
MaxRenderWidth == 15

MaxRenderHeight == 3

\* Explicit sizes tried: none, small, and the largest u16.
Sizes == {0, 2, U16Max}

Overrides == UNION {[1..n -> Sizes] : n \in 0..MaxOverrides}

\* A ragged grid: the second row is shorter than the first.
RaggedCells ==
    << <<StringCell(<<"a", "b", "c">>), ValueCell(0 - 7)>>, <<EmptyCell>> >>

RenderContents ==
    {MainContent} \cup
    {[cells |-> c, col_widths |-> cw, row_heights |-> rh] :
        c \in {<<>>, RaggedCells}, cw \in Overrides, rh \in Overrides}

\* Selections the key handling reaches (C1): single cells, a block, and
\* extents grown to the top of u16.
RenderSelections ==
    { [row |-> 0, col |-> 0, rows |-> 1, cols |-> 1],
      [row |-> 1, col |-> 1, rows |-> 1, cols |-> 1],
      [row |-> 0, col |-> 1, rows |-> 2, cols |-> 1],
      [row |-> 1, col |-> 0, rows |-> U16Max, cols |-> 1],
      [row |-> 0, col |-> 1, rows |-> 1, cols |-> U16Max] }

RenderViewports ==
    {Rect(0, 0, w, h) : w \in 0..MaxRenderWidth, h \in 0..MaxRenderHeight}

InitRender ==
    /\ selection \in RenderSelections
    /\ mode = IF selection.rows = 1 /\ selection.cols = 1 THEN "Normal" ELSE "Visual"
    /\ pc = "call"
    /\ event = "none"
    /\ before = [mode |-> mode, selection |-> selection]
    /\ label_col = 0
    /\ label = <<>>
    /\ content \in RenderContents
    /\ hist = [commanded |-> FALSE, renders |-> 0]
    /\ viewport \in RenderViewports
    /\ out = NoOutput

\* Table { content }.render(viewport, buf)
RenderCall ==
    /\ pc = "call"
    /\ \E checks \in BOOLEAN : out' = Render(content, selection, viewport, checks)
    /\ pc' = "returned"
    /\ UNCHANGED <<selection, mode, event, before, label_col, label, content, hist,
                   viewport>>

NextRender == RenderCall

SpecRender == InitRender /\ [][NextRender]_vars

(***************************************************************************)
(* Properties.  `event` = e says that the last thing done to the mode and  *)
(* the selection was the handling of e, from the state held in `before`.   *)
(***************************************************************************)
Moves == {"j", "k", "l", "h"}

\* C1: in every reachable state the extent is at least 1x1 and the anchor is
\* not negative; in particular MoveUp/MoveLeft in Visual mode stop at 1.
C1_SelectionInvariant ==
    /\ selection.rows >= 1
    /\ selection.cols >= 1
    /\ selection.row >= 0
    /\ selection.col >= 0

\* MoveUp has just been handled in Visual mode with extent.rows already 1.
C1_Witness ==
    /\ event = "k"
    /\ before.mode = "Visual"
    /\ before.selection.rows = 1
    /\ selection.rows = 1

\* C2: Cancel yields Mode=Normal and extent (1,1) with the anchor unchanged,
\* and leaves the whole state unchanged when the mode was already Normal.
C2_CancelResets ==
    event = "Esc" =>
        /\ mode = "Normal"
        /\ selection.rows = 1
        /\ selection.cols = 1
        /\ selection.row = before.selection.row
        /\ selection.col = before.selection.col
        /\ before.mode = "Normal" => selection = before.selection

\* Cancel has just been handled in Visual mode with extent (3,2).
C2_Witness ==
    /\ event = "Esc"
    /\ before.mode = "Visual"
    /\ before.selection.rows = 3
    /\ before.selection.cols = 2
    /\ before.selection.row = 1

\* C3: EnterVisual sets the mode to Visual and leaves anchor and extent as
\* they were, also when the mode is already Visual with a larger extent.
C3_EnterVisualKeepsSelection ==
    event = "v" =>
        /\ mode = "Visual"
        /\ selection = before.selection

\* EnterVisual has just been handled in Visual mode with a 3-row extent.
C3_Witness ==
    /\ event = "v"
    /\ before.mode = "Visual"
    /\ before.selection.rows = 3
    /\ before.selection.cols = 2

\* C4: after a directional command handled in Normal mode the extent is (1,1).
C4_NormalMoveExtentSingle ==
    event \in Moves /\ before.mode = "Normal" =>
        /\ selection.rows = 1
        /\ selection.cols = 1

\* MoveRight has just moved the anchor in Normal mode.
C4_Witness ==
    /\ event = "l"
    /\ before.mode = "Normal"
    /\ selection.col = before.selection.col + 1

\* C6: at anchor (0,0) in Normal mode MoveUp and MoveLeft change neither the
\* selection nor the mode, and the loop goes on to the next draw.
C6_ClampAtOrigin ==
    [][ /\ pc = "poll"
        /\ mode = "Normal"
        /\ selection.row = 0
        /\ selection.col = 0
        /\ event' \in {"k", "h"}
        => /\ selection' = selection
           /\ mode' = mode
           /\ pc' = "draw" ]_vars

\* MoveLeft has just been handled at anchor (0,0) in Normal mode.
C6_Witness ==
    /\ event = "h"
    /\ pc = "draw"
    /\ before.mode = "Normal"
    /\ before.selection.row = 0
    /\ before.selection.col = 0
    /\ selection.row = 0
    /\ selection.col = 0

\* C8: a directional command handled in Visual mode leaves the anchor and the
\* mode alone and changes at most the extent component of its own axis.
C8_VisualMoveKeepsAnchor ==
    event \in Moves /\ before.mode = "Visual" =>
        /\ mode = "Visual"
        /\ selection.row = before.selection.row
        /\ selection.col = before.selection.col
        /\ event \in {"j", "k"} => selection.cols = before.selection.cols
        /\ event \in {"l", "h"} => selection.rows = before.selection.rows

\* MoveDown has just grown the extent in Visual mode at an anchor off the origin.
C8_Witness ==
    /\ event = "j"
    /\ before.mode = "Visual"
    /\ before.selection.row = 2
    /\ before.selection.col = 1
    /\ selection.rows = before.selection.rows + 1

\* C5 as stated: a directional command in Normal mode moves the anchor by
\* exactly one cell, MoveDown/MoveRight always adding 1 with no upper bound,
\* MoveUp/MoveLeft saturating at 0; the other coordinate and the mode stay.
C5_NormalMoveUnbounded ==
    event \in Moves /\ before.mode = "Normal" =>
        /\ mode = "Normal"
        /\ event = "j" => selection.row = before.selection.row + 1
        /\ event = "k" => selection.row =
              IF before.selection.row > 0 THEN before.selection.row - 1 ELSE 0
        /\ event = "l" => selection.col = before.selection.col + 1
        /\ event = "h" => selection.col =
              IF before.selection.col > 0 THEN before.selection.col - 1 ELSE 0
        /\ event \in {"j", "k"} => selection.col = before.selection.col
        /\ event \in {"l", "h"} => selection.row = before.selection.row

\* C5 amended: as above, but MoveDown/MoveRight saturate at 65535 (u16::MAX).
C5_NormalMoveSaturating ==
    event \in Moves /\ before.mode = "Normal" =>
        /\ mode = "Normal"
        /\ event = "j" => selection.row =
              IF before.selection.row < U16Max THEN before.selection.row + 1 ELSE U16Max
        /\ event = "k" => selection.row =
              IF before.selection.row > 0 THEN before.selection.row - 1 ELSE 0
        /\ event = "l" => selection.col =
              IF before.selection.col < U16Max THEN before.selection.col + 1 ELSE U16Max
        /\ event = "h" => selection.col =
              IF before.selection.col > 0 THEN before.selection.col - 1 ELSE 0
        /\ event \in {"j", "k"} => selection.col = before.selection.col
        /\ event \in {"l", "h"} => selection.row = before.selection.row

\* MoveDown has just been handled in Normal mode with the anchor row at u16::MAX.
C5_Witness ==
    /\ event = "j"
    /\ before.mode = "Normal"
    /\ before.selection.row = U16Max
    /\ selection.row = U16Max

\* C7 as stated: in Visual mode every MoveDown adds exactly 1 to extent.rows
\* and every MoveRight exactly 1 to extent.cols, with no upper clamp.
C7_VisualGrowUnbounded ==
    before.mode = "Visual" =>
        /\ event = "j" => selection.rows = before.selection.rows + 1
        /\ event = "l" => selection.cols = before.selection.cols + 1

\* C7 amended: the extent component grows by exactly 1 unless it is already
\* 65535 (u16::MAX), where it stays.
C7_VisualGrowSaturating ==
    before.mode = "Visual" =>
        /\ event = "j" => selection.rows =
              IF before.selection.rows < U16Max THEN before.selection.rows + 1 ELSE U16Max
        /\ event = "l" => selection.cols =
              IF before.selection.cols < U16Max THEN before.selection.cols + 1 ELSE U16Max

\* MoveRight has just been handled in Visual mode with extent.cols at u16::MAX.
C7_Witness ==
    /\ event = "l"
    /\ before.mode = "Visual"
    /\ before.selection.cols = U16Max
    /\ selection.cols = U16Max

\* The cells probed around a span that starts at `start` and is `len` long.
Probes(start, len) ==
    {0, start - 1, start, start + len - 1, start + len, U16Max} \cap (0..U16Max)

\* C9: for every reachable selection and every cell (r,c), selected(r,c)
\* yields a value, and it is true iff anchor.row <= r < anchor.row+extent.rows
\* and anchor.col <= c < anchor.col+extent.cols with the sums not wrapping.
C9_SelectedIsContainment ==
    \A r \in Probes(selection.row, selection.rows),
       c \in Probes(selection.col, selection.cols) :
        /\ ~selected_panics(selection, r, c)
        /\ selected(selection, r, c) <=>
              /\ selection.row <= r /\ r < selection.row + selection.rows
              /\ selection.col <= c /\ c < selection.col + selection.cols

\* The inverse bijective base-26 mapping of a label.
LetterValue(ch) == CHOOSE i \in 0..25 : Letters[i + 1] = ch

RECURSIVE LabelToColNr(_)
LabelToColNr(s) ==
    IF Len(s) = 1
    THEN LetterValue(s[1])
    ELSE (LabelToColNr(SubSeq(s, 1, Len(s) - 1)) + 1) * 26 + LetterValue(s[Len(s)])

LabelScenarios ==
    { <<0, <<"A">> >>, <<25, <<"Z">> >>, <<26, <<"A", "A">> >>,
      <<51, <<"A", "Z">> >>, <<52, <<"B", "A">> >>, <<701, <<"Z", "Z">> >>,
      <<702, <<"A", "A", "A">> >> }

\* C10: for every u16 column index the label decodes back to the index under
\* the inverse bijective base-26 mapping, and the listed indices get the
\* listed labels.
C10_LabelRoundTrip ==
    label # <<>> =>
        /\ LabelToColNr(label) = label_col
        /\ \A sc \in LabelScenarios : label_col = sc[1] => label = sc[2]

\* The label of column 702 has been computed.
C10_Witness ==
    /\ label_col = 702
    /\ label = <<"A", "A", "A">>

\* C12: a render pass changes neither the grid (cells and size overrides), nor
\* the selection (anchor and extent), nor the mode.
C12_RenderReadOnly ==
    [][ pc = "draw" =>
          /\ content' = content
          /\ selection' = selection
          /\ mode' = mode ]_vars

\* A render of a Visual selection of two rows has just completed.
C12_Witness ==
    /\ pc = "poll"
    /\ hist.renders >= 1
    /\ mode = "Visual"
    /\ selection.rows = 2
    /\ before = [mode |-> mode, selection |-> selection]

\* C15 as stated: a render precedes the first command, exactly one render
\* lies between two consecutive commands, and a render observes the state the
\* previous command produced, completely applied.
C15_ExactlyOneRender ==
    [][ /\ pc = "poll" /\ event' \in Commands =>
            IF hist.commanded THEN hist.renders = 1 ELSE hist.renders >= 1
        /\ pc = "draw" /\ pc' = "poll" /\ event \in Commands =>
            /\ before'.mode = Apply(before.selection, before.mode, event).mode
            /\ before'.selection
                   = Apply(before.selection, before.mode, event).selection ]_vars

\* C15, amended: at least one render precedes every command (the first one
\* and each later one), and a render observes the state the previous command
\* produced, completely applied.
C15_RenderBeforeEachCommand ==
    [][ /\ pc = "poll" /\ event' \in Commands => hist.renders >= 1
        /\ pc = "draw" /\ pc' = "poll" /\ event \in Commands =>
            /\ before'.mode = Apply(before.selection, before.mode, event).mode
            /\ before'.selection
                   = Apply(before.selection, before.mode, event).selection ]_vars

\* Two renders have completed since the last command, which grew the extent,
\* and the loop waits for the next event.
C15_Witness ==
    /\ pc = "poll"
    /\ hist.commanded
    /\ hist.renders = 2
    /\ selection.rows = 2

\* C16: Quit leaves the loop with mode and selection as they were, nothing
\* happens after the loop has been left, and a poll timeout goes back to the
\* draw with mode and selection as they were.
C16_QuitAndTimeout ==
    [][ /\ pc = "poll" /\ event' = "q" =>
            /\ pc' = "done"
            /\ selection' = selection
            /\ mode' = mode
        /\ pc # "done"
        /\ pc = "poll" /\ pc' = "draw" /\ event' = "none" =>
            /\ selection' = selection
            /\ mode' = mode ]_vars

\* Quit has been handled in Visual mode with an extent of two rows.
C16_Witness ==
    /\ pc = "done"
    /\ event = "q"
    /\ mode = "Visual"
    /\ selection.rows = 2

\* C19: in Normal mode the extent is (1,1).
C19_NormalExtentSingle ==
    mode = "Normal" => selection.rows = 1 /\ selection.cols = 1

\* Cancel has just brought a Visual selection of two rows back to Normal mode.
C19_Witness ==
    /\ event = "Esc"
    /\ mode = "Normal"
    /\ before.mode = "Visual"
    /\ before.selection.rows = 2

\* The writes of the render that has returned, by their place in its order.
DrawIndex == 1..Len(out.draws)

\* The positions of the viewport.
ViewportCells ==
    Block(viewport.x, viewport.x + viewport.width,
          viewport.y, viewport.y + viewport.height)

\* The content-cell part of the viewport: right of the header column and
\* below the header row.
ContentRegion ==
    {p \in ViewportCells :
        /\ p[1] >= viewport.x + DefaultColWidth
        /\ p[2] >= viewport.y + DefaultRowHeight}

C13_WritesInsideViewport ==
    \A i \in DrawIndex :
        LET d == out.draws[i]
        IN  /\ \A p \in Cleared(d) \cup Glyphs(d) : Inside(p, viewport)
            /\ /\ d.kind = "content"
               /\ d.walk.x + d.walk.width <= U16Max
               /\ d.walk.y + d.walk.height <= U16Max
               /\ d.walk.height = 0 \/ d.walk.width <= U16Max \div d.walk.height
               => Cleared(d) = {p \in ViewportCells : Inside(p, d.walk)}

\* The first column of main()'s grid, ten wide, has been drawn in a viewport
\* that ends three columns into it: three columns cleared, text cut to "Val".
C13_Witness ==
    /\ content = MainContent
    /\ out.status = "ok"
    /\ \E i \in DrawIndex :
          LET d == out.draws[i]
          IN  /\ d.kind = "content"
              /\ d.walk.width = 10
              /\ d.clear.x1 - d.clear.x0 = 3
              /\ d.clear.x1 = viewport.x + viewport.width
              /\ d.text = <<"V", "a", "l">>

\* C14: a render pass does not fail.
C14_RenderNeverFails == out.status # "panic"

\* C17: a header-column cell has the selected style iff its grid row lies in
\* the selection's rows, a header-row cell iff its grid column lies in the
\* selection's columns, a content cell iff both, and the corner never.
C17_HighlightByContainment ==
    \A i \in DrawIndex :
        LET d == out.draws[i]
            in_rows == selection.row <= d.row /\ d.row < selection.row + selection.rows
            in_cols == selection.col <= d.col /\ d.col < selection.col + selection.cols
        IN  /\ d.kind = "header_col" => (d.style = "selected_header" <=> in_rows)
            /\ d.kind = "header_row" => (d.style = "selected_header" <=> in_cols)
            /\ d.kind = "content" => (d.style = "selected" <=> in_rows /\ in_cols)
            /\ d.kind = "corner" => d.style = "header"

C20_ClearedCellsTile ==
    out # NoOutput =>
        /\ \A i \in DrawIndex :
              out.draws[i].kind = "content" => Cleared(out.draws[i]) \subseteq ContentRegion
        /\ \A i, j \in DrawIndex :
              i # j /\ out.draws[i].kind = "content" /\ out.draws[j].kind = "content"
              => Cleared(out.draws[i]) \cap Cleared(out.draws[j]) = {}
        /\ \A p \in ContentRegion :
              \E i \in DrawIndex :
                  /\ out.draws[i].kind = "content"
                  /\ p \in Cleared(out.draws[i])

====
